---- MODULE Spec2Model ----
\* A model of weblib (mkweb): Paginator/Page (paginator.py), the freshness
\* decision of StaticDocument.prepare_target and DocumentList with its
\* Sequence objects (document.py).
EXTENDS Integers, Sequences, FiniteSets, TLC

VARIABLES
    \* ---- Paginator (paginator.py) ----
    object_list,            \* Paginator.object_list
    per_page,               \* Paginator.per_page
    orphans,                \* Paginator.orphans
    allow_empty_first_page, \* Paginator.allow_empty_first_page
    len,                    \* Paginator.len
    call,                   \* the last call made on the paginator or on a page
    result,                 \* what that call returned or raised
    \* ---- StaticDocument.prepare_target / install (document.py) ----
    source_file,            \* what os.stat(self._path) finds
    target_file,            \* what os.stat(target_path) finds
    target_dir,             \* whether dirname(target_path) exists
    now,                    \* the filesystem clock
    fresh,                  \* the last prepare_target / install call and its outcome
    \* ---- DocumentList (document.py) ----
    file_cache,             \* config.file_cache
    docs,                   \* the DocumentList itself (a list of documents)
    next_id,                \* identity of the next document object created
    dl_call                 \* the last call made on the DocumentList and its outcome

pag_vars == <<object_list, per_page, orphans, allow_empty_first_page, len, call, result>>
fresh_vars == <<source_file, target_file, target_dir, now, fresh>>
dl_vars == <<file_cache, docs, next_id, dl_call>>
vars == <<pag_vars, fresh_vars, dl_vars>>

\* ------------------------------------------------------------------
\* Bounds of the model
\* ------------------------------------------------------------------
MaxItems == 7
MaxPerPage == 4
MaxOrphans == 3
MaxKey == 8
MaxSliceArg == 3

Max(a, b) == IF a >= b THEN a ELSE b
Min(a, b) == IF a <= b THEN a ELSE b

\* An optional integer (Python's None or an int).
None == [none |-> TRUE, v |-> 0]
Some(x) == [none |-> FALSE, v |-> x]

\* ------------------------------------------------------------------
\* Paginator
\* ------------------------------------------------------------------

\* int(ceil(a / float(b))) for a >= 0, b > 0
CeilDiv(a, b) == (a + b - 1) \div b

\* A page count that forgets the orphans: hits = len(object_list)
PaginatorLen_NoOrphans(ol, pp, orph, allow) ==
    IF Len(ol) = 0
    THEN (IF allow THEN 1 ELSE 0)
    ELSE CeilDiv(Max(1, Len(ol)), pp)

\* Paginator.__init__: the page count stored in self.len
PaginatorLen(ol, pp, orph, allow) ==
    IF Len(ol) = 0
    THEN (IF allow THEN 1 ELSE 0)
    ELSE LET hits == Max(1, Len(ol) - orph)
         IN  CeilDiv(hits, pp)

\* Python's list[lo:hi] for 0 <= lo, 0 <= hi (both are clamped to the length)
PySlice(l, lo, hi) ==
    LET a == Min(lo, Len(l))
        b == Min(hi, Len(l))
    IN  IF a >= b THEN <<>> ELSE SubSeq(l, a + 1, b)

\* Results of calls
NoResult == [kind |-> "none", items |-> <<>>, number |-> 0, pages |-> <<>>, value |-> 0]
Page(items, number) ==
    [kind |-> "Page", items |-> items, number |-> number, pages |-> <<>>, value |-> 0]
Raise(exc) == [kind |-> exc, items |-> <<>>, number |-> 0, pages |-> <<>>, value |-> 0]
PageList(ps) == [kind |-> "list", items |-> <<>>, number |-> 0, pages |-> ps, value |-> 0]
IntResult(n) == [kind |-> "int", items |-> <<>>, number |-> 0, pages |-> <<>>, value |-> n]

\* __getitem__ without the normalisation of negative keys
getitem_NoNegative(key) ==
    IF key >= len \/ key < 0
    THEN Raise("IndexError")
    ELSE LET bottom == key * per_page
             top0 == bottom + per_page
             top == IF top0 + orphans >= Len(object_list)
                    THEN Len(object_list) ELSE top0
         IN  Page(PySlice(object_list, bottom, top), key)

\* __getitem__ without the absorption of orphans into the last page
getitem_NoAbsorb(key) ==
    LET k == IF key < 0 THEN key + len ELSE key
    IN  IF k >= len \/ k < 0
        THEN Raise("IndexError")
        ELSE LET bottom == k * per_page
                 top == bottom + per_page
             IN  Page(PySlice(object_list, bottom, top), k)

\* Paginator.__getitem__ with an integer key
getitem(key) ==
    LET k == IF key < 0 THEN key + len ELSE key
    IN  IF k >= len \/ k < 0
        THEN Raise("IndexError")
        ELSE LET bottom == k * per_page
                 top0 == bottom + per_page
                 top == IF top0 + orphans >= Len(object_list)
                        THEN Len(object_list) ELSE top0
             IN  Page(PySlice(object_list, bottom, top), k)

\* slice.indices(length) as Python computes it, for step /= 0:
\* the triple (start, stop, step) that `key.indices(self.len)` returns
SliceIndices(start, stop, step, length) ==
    LET st == IF step.none THEN 1 ELSE step.v
        lower == IF st < 0 THEN -1 ELSE 0
        upper == IF st < 0 THEN length - 1 ELSE length
        Clamp(x) == LET y == IF x < 0 THEN x + length ELSE x
                    IN  IF y < lower THEN lower ELSE IF y > upper THEN upper ELSE y
        s == IF start.none THEN (IF st < 0 THEN upper ELSE lower) ELSE Clamp(start.v)
        e == IF stop.none THEN (IF st < 0 THEN lower ELSE upper) ELSE Clamp(stop.v)
    IN  <<s, e, st>>

\* list(self.__getitem__(i) for i in <indices>): the first IndexError ends it
PagesAt(indices) ==
    IF \E j \in 1..Len(indices) : getitem(indices[j]).kind = "IndexError"
    THEN Raise("IndexError")
    ELSE PageList([j \in 1..Len(indices) |-> getitem(indices[j])])

\* Paginator.__getitem__ with a slice key: the generator iterates over the
\* value of key.indices(self.len), which is the tuple (start, stop, step)
getitem_slice(start, stop, step) ==
    IF ~step.none /\ step.v = 0
    THEN Raise("ValueError")
    ELSE PagesAt(SliceIndices(start, stop, step, len))

\* Page.start_index
start_index(page) ==
    IF Len(object_list) = 0 THEN 0 ELSE per_page * page.number

\* Page.end_index
end_index(page) ==
    IF page.number = len - 1
    THEN Len(object_list)
    ELSE page.number * per_page

\* Page.has_next / Page.has_previous
has_next(page) == page.number < len - 1
has_previous(page) == page.number > 0

\* ---- calls ----
Call(op, key, start, stop, step, page) ==
    [op |-> op, key |-> key, start |-> start, stop |-> stop, step |-> step, page |-> page]
NoCall == Call("none", 0, None, None, None, NoResult)

Keys == (-MaxKey)..MaxKey
SliceArgs == {None} \cup {Some(x) : x \in (-MaxSliceArg)..MaxSliceArg}
Steps == {None} \cup {Some(x) : x \in {-2, -1, 0, 1, 2}}

\* The collections tried: N distinct items in order
Collection(n) == [i \in 1..n |-> i]

\* Paginator(object_list, per_page, orphans, allow_empty_first_page)
PaginatorInit ==
    /\ \E n \in 0..MaxItems : object_list = Collection(n)
    /\ per_page \in 1..MaxPerPage
    /\ orphans \in 0..MaxOrphans
    /\ allow_empty_first_page \in BOOLEAN
    /\ len = PaginatorLen(object_list, per_page, orphans, allow_empty_first_page)
    /\ call = NoCall
    /\ result = NoResult

PaginatorIdle ==
    /\ object_list = <<>>
    /\ per_page = 1
    /\ orphans = 0
    /\ allow_empty_first_page = TRUE
    /\ len = 1
    /\ call = NoCall
    /\ result = NoResult

pag_conf == <<object_list, per_page, orphans, allow_empty_first_page, len>>

\* The paginator is immutable after construction, so a call's outcome does
\* not depend on the calls before it: each call starts from a paginator
\* whose last result has been dropped (Forget).
Forget ==
    /\ call.op # "none"
    /\ call' = NoCall
    /\ result' = NoResult
    /\ UNCHANGED <<pag_conf, fresh_vars, dl_vars>>

\* paginator[key]
GetItem ==
    \E key \in Keys :
        /\ call.op = "none"
        /\ call' = Call("getitem", key, None, None, None, NoResult)
        /\ result' = getitem(key)
        /\ UNCHANGED <<pag_conf, fresh_vars, dl_vars>>

\* paginator[start:stop:step]
GetSlice ==
    \E start \in SliceArgs, stop \in SliceArgs, step \in Steps :
        /\ call.op = "none"
        /\ call' = Call("slice", 0, start, stop, step, NoResult)
        /\ result' = getitem_slice(start, stop, step)
        /\ UNCHANGED <<pag_conf, fresh_vars, dl_vars>>

\* page.end_index() on the page the last paginator[key] returned
EndIndex ==
    /\ call.op = "getitem"
    /\ result.kind = "Page"
    /\ call' = Call("end_index", call.key, None, None, None, result)
    /\ result' = IntResult(end_index(result))
    /\ UNCHANGED <<pag_conf, fresh_vars, dl_vars>>

\* page.start_index() on the page the last paginator[key] returned
StartIndex ==
    /\ call.op = "getitem"
    /\ result.kind = "Page"
    /\ call' = Call("start_index", call.key, None, None, None, result)
    /\ result' = IntResult(start_index(result))
    /\ UNCHANGED <<pag_conf, fresh_vars, dl_vars>>

\* `for page in paginator`: Python's sequence iteration calls
\* __getitem__(0), __getitem__(1), ... until IndexError
IterStart ==
    /\ call.op = "none"
    /\ call' = Call("iter", 0, None, None, None, NoResult)
    /\ result' = PageList(<<>>)
    /\ UNCHANGED <<pag_conf, fresh_vars, dl_vars>>

IterNext ==
    /\ call.op = "iter"
    /\ LET r == getitem(call.key)
       IN  IF r.kind = "IndexError"
           THEN /\ call' = Call("iter_done", call.key, None, None, None, NoResult)
                /\ result' = result
           ELSE /\ call' = Call("iter", call.key + 1, None, None, None, NoResult)
                /\ result' = PageList(Append(result.pages, r))
    /\ UNCHANGED <<pag_conf, fresh_vars, dl_vars>>

\* ------------------------------------------------------------------
\* StaticDocument.prepare_target and install
\* ------------------------------------------------------------------
MaxTime == 3

\* A path as os.stat sees it: a file with its st_mtime, or an OSError
File(t) == [kind |-> "ok", mtime |-> t]
Missing == [kind |-> "ENOENT", mtime |-> 0]
Denied == [kind |-> "EACCES", mtime |-> 0]

\* Modification times as floats: a finite time or float("-inf")
Time(t) == [neginf |-> FALSE, t |-> t]
NegInf == [neginf |-> TRUE, t |-> 0]
\* a >= b on those floats
GreaterOrEqual(a, b) == b.neginf \/ (~a.neginf /\ a.t >= b.t)

\* a > b on those floats
Greater(a, b) == ~a.neginf /\ (b.neginf \/ a.t > b.t)

\* try: os.stat(path).st_mtime  except OSError: float("-inf")
mtime_of(f) == IF f.kind = "ok" THEN Time(f.mtime) ELSE NegInf

\* The outcome of a prepare_target / install call, with the files it saw
Fresh(op, force, src, tgt, kind, make) ==
    [op |-> op, force |-> force, source |-> src, target |-> tgt,
     kind |-> kind, make |-> make]
NoFresh == Fresh("none", FALSE, Missing, Missing, "none", FALSE)

\* StaticDocument.prepare_target: the third component of the returned triple
prepare_target(src, tgt) ==
    LET target_time == mtime_of(tgt)
        source_time == mtime_of(src)
    IN  Greater(source_time, target_time)

FreshInit ==
    /\ now = 0
    /\ source_file \in {File(0), Missing, Denied}
    /\ target_file \in {File(0), Missing, Denied}
    /\ target_dir \in BOOLEAN
    /\ (target_file.kind # "ENOENT" => target_dir)
    /\ fresh = NoFresh

FreshIdle ==
    /\ now = 0
    /\ source_file = Missing
    /\ target_file = Missing
    /\ target_dir = FALSE
    /\ fresh = NoFresh

\* document.prepare_target(target)
PrepareTarget ==
    /\ fresh' = Fresh("prepare_target", FALSE, source_file, target_file, "return",
                      prepare_target(source_file, target_file))
    /\ target_dir' = TRUE
    /\ UNCHANGED <<source_file, target_file, now, pag_vars, dl_vars>>

\* document.install(target, force): shutil.copy when make or force
Install ==
    \E force \in BOOLEAN :
        LET make == prepare_target(source_file, target_file)
        IN  /\ target_dir' = TRUE
            /\ IF make \/ force
               THEN IF source_file.kind = "ok" /\ target_file.kind # "EACCES"
                    THEN /\ target_file' = File(now)
                         /\ fresh' = Fresh("install", force, source_file, target_file,
                                           "copied", make)
                    ELSE /\ target_file' = target_file
                         /\ fresh' = Fresh("install", force, source_file, target_file,
                                           "OSError", make)
               ELSE /\ target_file' = target_file
                    /\ fresh' = Fresh("install", force, source_file, target_file,
                                      "return", make)
            /\ UNCHANGED <<source_file, now, pag_vars, dl_vars>>

\* The filesystem around the document: time passes, files are written,
\* removed or made unreadable
Tick ==
    /\ now < MaxTime
    /\ now' = now + 1
    /\ UNCHANGED <<source_file, target_file, target_dir, fresh, pag_vars, dl_vars>>

WriteSource ==
    /\ source_file.kind # "EACCES"
    /\ source_file' = File(now)
    /\ UNCHANGED <<target_file, target_dir, now, fresh, pag_vars, dl_vars>>

RemoveSource ==
    /\ source_file.kind = "ok"
    /\ source_file' = Missing
    /\ UNCHANGED <<target_file, target_dir, now, fresh, pag_vars, dl_vars>>

RemoveTarget ==
    /\ target_file.kind = "ok"
    /\ target_file' = Missing
    /\ UNCHANGED <<source_file, target_dir, now, fresh, pag_vars, dl_vars>>

DenySource ==
    /\ source_file.kind # "EACCES"
    /\ source_file' = Denied
    /\ UNCHANGED <<target_file, target_dir, now, fresh, pag_vars, dl_vars>>

DenyTarget ==
    /\ target_file.kind # "EACCES"
    /\ target_dir
    /\ target_file' = Denied
    /\ UNCHANGED <<source_file, target_dir, now, fresh, pag_vars, dl_vars>>

\* ------------------------------------------------------------------
\* DocumentList and Sequence
\* ------------------------------------------------------------------
MaxDocs == 3

\* File paths are strings, modelled as sequences of characters
APy == <<"a", ".", "p", "y">>
BMd == <<"b", ".", "m", "d">>
CTxt == <<"c", ".", "t", "x", "t">>
Files == {APy, BMd, CTxt}

\* ord(c) of the characters used
CharCode == ("." :> 46) @@ ("a" :> 97) @@ ("b" :> 98) @@ ("c" :> 99) @@ ("d" :> 100)
            @@ ("m" :> 109) @@ ("p" :> 112) @@ ("t" :> 116) @@ ("x" :> 120) @@ ("y" :> 121)

\* p < q on strings
StrLess(p, q) ==
    \E i \in 1..(Len(q)) :
        /\ \A j \in 1..(i - 1) : j <= Len(p) /\ p[j] = q[j]
        /\ (i > Len(p) \/ (i <= Len(p) /\ CharCode[p[i]] < CharCode[q[i]]))

\* str.endswith
EndsWith(p, suffix) ==
    /\ Len(p) >= Len(suffix)
    /\ SubSeq(p, Len(p) - Len(suffix) + 1, Len(p)) = suffix

\* The DOCTYPES dict, in its insertion order
DOCTYPES ==
    << [suffix |-> <<".", "p", "y">>, type |-> "PythonDocument"],
       [suffix |-> <<".", "m", "d">>, type |-> "MarkdownDocument"] >>

\* The inner for/else of add_by_pattern: the type of the first suffix the
\* path ends with, or "None" when the loop ends without a break
SuffixType(path) ==
    IF \E i \in 1..Len(DOCTYPES) : EndsWith(path, DOCTYPES[i].suffix)
    THEN LET i == CHOOSE i \in 1..Len(DOCTYPES) :
                      /\ EndsWith(path, DOCTYPES[i].suffix)
                      /\ \A j \in 1..(i - 1) : ~EndsWith(path, DOCTYPES[j].suffix)
         IN  DOCTYPES[i].type
    ELSE "None"

\* A document's sequence attribute: unset, or a Sequence object.
\* next and prev hold the identity of the neighbouring document.
NoSequence ==
    [set |-> FALSE, index |-> 0, index1 |-> 0, revindex1 |-> 0, revindex |-> 0,
     first |-> FALSE, last |-> FALSE, length |-> 0,
     has_next |-> FALSE, next |-> 0, has_prev |-> FALSE, prev |-> 0]

\* Sequence.__init__(index, sequence), index 0-based
Sequence(index, sequence) ==
    LET n == Len(sequence)
        first == index = 0
        last == index = n - 1
    IN  [set |-> TRUE, index |-> index, index1 |-> index + 1,
         revindex1 |-> n - index, revindex |-> n - index - 1,
         first |-> first, last |-> last, length |-> n,
         has_next |-> ~last, next |-> IF ~last THEN sequence[index + 2].id ELSE 0,
         has_prev |-> ~first, prev |-> IF ~first THEN sequence[index].id ELSE 0]

\* A document object created by add_by_pattern
Doc(id, path, type) ==
    [id |-> id, source_path |-> path, type |-> type, sequence |-> NoSequence]

\* DocumentList.find_by_pattern: the cached files the pattern matches, in the
\* cache's order. A pattern is modelled by the set of paths it matches.
find_by_pattern(pattern) ==
    SelectSeq(file_cache, LAMBDA f : f \in pattern)

\* The loop of DocumentList.add_by_pattern over the matches ms, from the
\* list ds with the local doc_type dt: the list it leaves, and whether it raised
RECURSIVE AddLoop(_, _, _, _)
AddLoop(ds, ms, dt, nid) ==
    IF ms = <<>>
    THEN [docs |-> ds, raised |-> FALSE, next_id |-> nid]
    ELSE LET m == Head(ms)
             dt2 == IF dt # "None" THEN dt ELSE SuffixType(m)
         IN  IF dt2 = "None"
             THEN [docs |-> ds, raised |-> TRUE, next_id |-> nid]
             ELSE AddLoop(Append(ds, Doc(nid, m, dt2)), Tail(ms), dt2, nid + 1)

\* DocumentList.add_by_pattern
add_by_pattern(ds, pattern, doc_type, nid) ==
    AddLoop(ds, find_by_pattern(pattern), doc_type, nid)

\* The sort keys tried: the default (source_path) and a constant key
SortKeys == {"source_path", "const"}
KeyLess(key, a, b) ==
    IF key = "source_path" THEN StrLess(a.source_path, b.source_path) ELSE FALSE

\* list.sort(key, reverse): stable, also when reversed
RECURSIVE InsertSorted(_, _, _, _)
InsertSorted(x, sorted, key, reverse) ==
    IF sorted = <<>>
    THEN <<x>>
    ELSE LET h == Head(sorted)
             before == IF reverse THEN KeyLess(key, h, x) ELSE KeyLess(key, x, h)
         IN  IF before
             THEN <<x>> \o sorted
             ELSE <<h>> \o InsertSorted(x, Tail(sorted), key, reverse)

RECURSIVE ListSort(_, _, _)
ListSort(l, key, reverse) ==
    IF l = <<>>
    THEN <<>>
    ELSE InsertSorted(l[Len(l)], ListSort(SubSeq(l, 1, Len(l) - 1), key, reverse),
                      key, reverse)

\* DocumentList.prepare_sequences
prepare_sequences(l) ==
    [i \in 1..Len(l) |-> [l[i] EXCEPT !.sequence = Sequence(i - 1, l)]]

\* DocumentList.sort
sort(l, key, reverse) == prepare_sequences(ListSort(l, key, reverse))

DocTypeArgs == {"None", "StaticDocument"}
Patterns == SUBSET Files

DlCall(op, pattern, doc_type, key, reverse, raised) ==
    [op |-> op, pattern |-> pattern, doc_type |-> doc_type, key |-> key,
     reverse |-> reverse, raised |-> raised]
NoDlCall == DlCall("none", {}, "None", "source_path", FALSE, FALSE)

\* config.file_cache: the source files in the order os.walk lists them
FileCaches ==
    {fc \in [1..Cardinality(Files) -> Files] : \A i, j \in DOMAIN fc : fc[i] = fc[j] => i = j}

\* DocumentList(pattern, doc_type, sort_key, sort_reverse): without a pattern
\* the list is empty; with one it is filled and sorted, unless that raises
DocumentListInit ==
    /\ file_cache \in FileCaches
    /\ dl_call = NoDlCall
    /\ \/ /\ docs = <<>>
          /\ next_id = 1
       \/ \E pattern \in Patterns \ {{}}, doc_type \in DocTypeArgs,
             key \in SortKeys, reverse \in BOOLEAN :
            LET r == add_by_pattern(<<>>, pattern, doc_type, 1)
            IN  /\ ~r.raised
                /\ docs = sort(r.docs, key, reverse)
                /\ next_id = r.next_id

DocumentListIdle ==
    /\ file_cache = <<>>
    /\ docs = <<>>
    /\ next_id = 1
    /\ dl_call = NoDlCall

\* documents.add_by_pattern(pattern, doc_type)
AddByPattern ==
    \E pattern \in Patterns, doc_type \in DocTypeArgs :
        LET r == add_by_pattern(docs, pattern, doc_type, next_id)
        IN  /\ Len(docs) + Len(find_by_pattern(pattern)) <= MaxDocs
            /\ docs' = r.docs
            /\ next_id' = r.next_id
            /\ dl_call' = DlCall("add_by_pattern", pattern, doc_type, "source_path",
                                 FALSE, r.raised)
            /\ UNCHANGED <<file_cache, pag_vars, fresh_vars>>

\* documents.sort(key, reverse)
Sort ==
    \E key \in SortKeys, reverse \in BOOLEAN :
        /\ docs' = sort(docs, key, reverse)
        /\ dl_call' = DlCall("sort", {}, "None", key, reverse, FALSE)
        /\ UNCHANGED <<file_cache, next_id, pag_vars, fresh_vars>>

\* ------------------------------------------------------------------
\* Specifications
\* ------------------------------------------------------------------
Init == PaginatorInit /\ FreshIdle /\ DocumentListIdle
Next ==
    \/ GetItem \/ GetSlice \/ EndIndex \/ StartIndex \/ IterStart \/ IterNext
    \/ Forget
Spec == Init /\ [][Next]_vars

InitFresh == PaginatorIdle /\ FreshInit /\ DocumentListIdle
NextFresh ==
    \/ PrepareTarget \/ Install \/ Tick \/ WriteSource \/ RemoveSource
    \/ RemoveTarget \/ DenySource \/ DenyTarget
SpecFresh == InitFresh /\ [][NextFresh]_vars

InitDocs == PaginatorIdle /\ FreshIdle /\ DocumentListInit
NextDocs == AddByPattern \/ Sort
SpecDocs == InitDocs /\ [][NextDocs]_vars

\* ------------------------------------------------------------------
\* Properties
\* ------------------------------------------------------------------

\* The items of a sequence of pages, concatenated in page order
RECURSIVE ConcatItems(_)
ConcatItems(ps) ==
    IF ps = <<>> THEN <<>> ELSE Head(ps).items \o ConcatItems(Tail(ps))

RECURSIVE SumLen(_)
SumLen(ps) ==
    IF ps = <<>> THEN 0 ELSE Len(Head(ps).items) + SumLen(Tail(ps))

\* C1: the pages pageAt(0), ..., pageAt(length()-1), as an iteration over the
\* paginator collects them, concatenated in page order equal the collection:
\* nothing is lost, duplicated or reordered, and the page lengths sum to len(C).
C1_PagesPartitionCollection ==
    call.op = "iter_done" =>
        /\ Len(result.pages) = len
        /\ \A i \in 1..Len(result.pages) : result.pages[i].number = i - 1
        /\ ConcatItems(result.pages) = object_list
        /\ SumLen(result.pages) = Len(object_list)

C1_Witness ==
    /\ call.op = "iter_done"
    /\ Len(result.pages) >= 3
    /\ orphans > 0
    /\ Len(result.pages[Len(result.pages)].items) > per_page

\* C2: pageAt(key) raises IndexError exactly when key < -length() or
\* key >= length(); a key in [-length(), 0) gives the page of key + length();
\* on an empty collection every call fails when allow_empty_first_page is
\* false, and pageAt(0) is an empty page when it is true.
C2_IndexErrorExactlyOutOfRange ==
    call.op = "getitem" =>
        /\ (result.kind = "IndexError" <=> (call.key < -len \/ call.key >= len))
        /\ result.kind \in {"IndexError", "Page"}
        /\ (call.key >= -len /\ call.key < 0 =>
                /\ result.kind = "Page"
                /\ result.number = call.key + len
                /\ result = getitem(call.key + len))
        /\ (Len(object_list) = 0 /\ ~allow_empty_first_page => result.kind = "IndexError")
        /\ (Len(object_list) = 0 /\ allow_empty_first_page /\ call.key = 0 =>
                result = Page(<<>>, 0))

C2_Witness ==
    /\ call.op = "getitem"
    /\ call.key = -1
    /\ len >= 2
    /\ result.kind = "Page"
    /\ result.number = len - 1

\* The indices of range(start, stop, step), step /= 0
RangeLen(start, stop, step) ==
    IF step > 0
    THEN (IF stop > start THEN CeilDiv(stop - start, step) ELSE 0)
    ELSE (IF start > stop THEN CeilDiv(start - stop, -step) ELSE 0)
RangeSeq(start, stop, step) ==
    [j \in 1..RangeLen(start, stop, step) |-> start + (j - 1) * step]

\* C5: slicing with (start, stop, step) returns the pages pageAt(i) for
\* exactly the indices i of the normalized range, in range order; a range
\* whose indices all lie in [0, L) never fails.
C5_SliceReturnsPagesOfRange ==
    (call.op = "slice" /\ ~(~call.step.none /\ call.step.v = 0)) =>
        LET ind == SliceIndices(call.start, call.stop, call.step, len)
            range == RangeSeq(ind[1], ind[2], ind[3])
        IN  /\ ((\A j \in 1..Len(range) : range[j] >= 0 /\ range[j] < len)
                    => result.kind = "list")
            /\ (result.kind = "list" =>
                    /\ Len(result.pages) = Len(range)
                    /\ \A j \in 1..Len(range) : result.pages[j] = getitem(range[j]))

\* C6: for N > 0 items every page before the last holds exactly per_page
\* items, and with more than one page the last page holds more than orphans
\* and at most per_page + orphans items.
C6_OrphansAbsorbed ==
    (call.op = "iter_done" /\ Len(object_list) > 0) =>
        LET n == Len(result.pages)
        IN  /\ n = len
            /\ n >= 1
            /\ \A i \in 1..(n - 1) : Len(result.pages[i].items) = per_page
            /\ (n > 1 =>
                    /\ Len(result.pages[n].items) > orphans
                    /\ Len(result.pages[n].items) <= per_page + orphans)

C6_Witness ==
    /\ call.op = "iter_done"
    /\ Len(result.pages) > 1
    /\ orphans > 1
    /\ Len(object_list) > Len(result.pages) * per_page
    /\ Len(result.pages[Len(result.pages)].items) = per_page + orphans

\* C9: for a non-empty page, end_index() is the 0-based index in the whole
\* collection of the page's last object: collection[end_index()] is the
\* page's last item.
C9_EndIndexIsLastItem ==
    (call.op = "end_index" /\ Len(call.page.items) > 0) =>
        /\ result.value >= 0
        /\ result.value < Len(object_list)
        /\ result.value = call.page.number * per_page + Len(call.page.items) - 1
        /\ object_list[result.value + 1] = call.page.items[Len(call.page.items)]

\* C3: prepare_target returns needsMake = true exactly when the source's
\* modification time is strictly greater than the target's, a file whose
\* stat fails counting as -infinity.
C3_NeedsMakeIffSourceNewer ==
    fresh.op = "prepare_target" =>
        /\ fresh.kind = "return"
        /\ (fresh.make <=>
                /\ fresh.source.kind = "ok"
                /\ (fresh.target.kind # "ok" \/ fresh.source.mtime > fresh.target.mtime))
        /\ (fresh.source.kind = "ENOENT" /\ fresh.target.kind = "ok" => ~fresh.make)

C3_Witness ==
    /\ fresh.op = "prepare_target"
    /\ fresh.source.kind = "ok"
    /\ fresh.target.kind = "ok"
    /\ fresh.source.mtime = fresh.target.mtime
    /\ fresh.source.mtime > 0
    /\ ~fresh.make

\* C4: whenever the target file is missing, prepare_target returns
\* needsMake = true, whatever the state of the source file.
C4_MissingTargetNeedsMake ==
    (fresh.op = "prepare_target" /\ fresh.target.kind = "ENOENT") => fresh.make

\* C8: a stat failure of the source or target other than "file not found"
\* propagates to the caller of prepare_target as an error.
C8_StatFailurePropagates ==
    (/\ fresh.op = "prepare_target"
     /\ (fresh.source.kind = "EACCES" \/ fresh.target.kind = "EACCES"))
        => fresh.kind = "OSError"

\* A path that ends in one of the registered suffixes
HasRegisteredSuffix(path) ==
    \E i \in 1..Len(DOCTYPES) : EndsWith(path, DOCTYPES[i].suffix)

\* C7: add_by_pattern without an explicit doc_type raises the "no document
\* type" RuntimeError for every matched file that ends in no registered
\* suffix, whatever was matched before it; no such file becomes a document.
C7_UnknownSuffixRaises ==
    /\ (/\ dl_call.op = "add_by_pattern"
        /\ dl_call.doc_type = "None"
        /\ \E i \in 1..Len(file_cache) :
               file_cache[i] \in dl_call.pattern /\ ~HasRegisteredSuffix(file_cache[i]))
            => dl_call.raised
    /\ (dl_call.op = "add_by_pattern" /\ dl_call.doc_type = "None") =>
           \A i \in 1..Len(docs) :
               docs[i].type \in {"PythonDocument", "MarkdownDocument"}
                   => HasRegisteredSuffix(docs[i].source_path)

\* C10: after any sequence of add_by_pattern and sort calls every element at
\* position i carries a Sequence for the list as it is now: index, length,
\* first, last, and next / prev naming the neighbouring elements.
C10_SequencesMatchList ==
    \A i \in 1..Len(docs) :
        LET q == docs[i].sequence
        IN  /\ q.set
            /\ q.index = i - 1
            /\ q.length = Len(docs)
            /\ (q.first <=> i = 1)
            /\ (q.last <=> i = Len(docs))
            /\ (q.has_next <=> ~q.last)
            /\ (q.has_prev <=> ~q.first)
            /\ (i < Len(docs) => q.has_next /\ q.next = docs[i + 1].id)
            /\ (i > 1 => q.has_prev /\ q.prev = docs[i - 1].id)

====
